---- MODULE Spec2Model ----
(***************************************************************************)
(* Model of src/rgbled.py: the SH1106 driver class (framebuffer, glyph and *)
(* text rendering, page-by-page flush over a locked I2C bus) and the main  *)
(* script that probes the bus, constructs the driver and draws the text.   *)
(*                                                                         *)
(* The bus is busio.I2C: one boolean lock without ownership (try_lock      *)
(* succeeds only when the lock is free, also for the caller that already   *)
(* holds it; unlock frees it whoever calls), and writeto, which raises     *)
(* when the bus is not locked or the device does not acknowledge.          *)
(***************************************************************************)
EXTENDS Integers, Sequences, FiniteSets, TLC

VARIABLES
    pc,          \* position of the (single) Python thread
    stack,       \* return addresses of the show() calls in progress
    exc,         \* an exception is propagating / has terminated the script
    state,       \* driver life cycle: Uninitialized, Initializing, Ready
    lock,        \* the bus lock: "free", or who locked it last: "driver" | "other"
    otherIn,     \* another bus user is inside its own locked section
    t,           \* startup probe: ticks of time.monotonic() elapsed since t0
    addr, width, height, pages, col_offset,   \* the driver's configuration
    buffer,      \* self.buffer, index 0..width*pages-1, each 0..255
    k,           \* _init_display: number of the next bring-up command
    page, i,     \* show(): loop variables
    bus,         \* every write the controller received from the driver, in order
    call,        \* the last method call made on the driver, with its arguments
    pre          \* self.buffer as it was when that call was made

cfg  == <<addr, width, height, pages, col_offset>>
loop == <<k, page, i>>
hist == <<call, pre>>
vars == <<pc, stack, exc, state, lock, otherIn, t, addr, width, height, pages,
          col_offset, buffer, k, page, i, bus, call, pre>>

----------------------------------------------------------------------------
(* Bounds of the model *)

\* ticks of monotonic time that make up the probe's 1.0 s
ProbeTicks == 2

----------------------------------------------------------------------------
(* Integer helpers: Python's |, &, &~, >>, << on non-negative integers *)

RECURSIVE BitOr(_, _)
BitOr(a, b) ==
    IF a = 0 THEN b
    ELSE IF b = 0 THEN a
    ELSE (IF a % 2 = 1 \/ b % 2 = 1 THEN 1 ELSE 0) + 2 * BitOr(a \div 2, b \div 2)

RECURSIVE BitAnd(_, _)
BitAnd(a, b) ==
    IF a = 0 \/ b = 0 THEN 0
    ELSE (IF a % 2 = 1 /\ b % 2 = 1 THEN 1 ELSE 0) + 2 * BitAnd(a \div 2, b \div 2)

\* a & ~m : the bits of a that are not bits of m
RECURSIVE BitAndNot(_, _)
BitAndNot(a, m) ==
    IF a = 0 THEN 0
    ELSE (IF a % 2 = 1 /\ m % 2 = 0 THEN 1 ELSE 0) + 2 * BitAndNot(a \div 2, m \div 2)

Shl(a, n) == a * 2^n
Shr(a, n) == a \div 2^n

Max(a, b) == IF a >= b THEN a ELSE b

\* Slice that always starts at the head of the buffer
Slice_FromHead(buf, a, b) == [j \in 1..Max(0, b - a) |-> buf[j - 1]]

\* len(buf) of a buffer kept as a function on 0..n-1
BufLen(buf) == Cardinality(DOMAIN buf)

\* Python's buf[a:b] for 0 <= a, with the slice's clipping of b to the length
Slice(buf, a, b) ==
    LET e == IF b > BufLen(buf) THEN BufLen(buf) ELSE b
    IN  [j \in 1..Max(0, e - a) |-> buf[a + j - 1]]

----------------------------------------------------------------------------
(* The wire protocol *)

\* _cmd: control byte 0x00, then the command bytes
Cmd(bytes_) == <<\h00>> \o bytes_

\* _data: control byte 0x40, then the chunk
Data(chunk) == <<\h40>> \o chunk

\* show(): bytes per data write
chunk_size == 16

\* InitSeq with the display switched on before it is configured
InitSeq_DisplayOnFirst(h) ==
    << <<\hAF>>, <<\hAE>>, <<\hD5, \h80>>, <<\hA8, h - 1>>, <<\hD3, \h00>>, <<\h40>>,
       <<\hAD, \h8B>>, <<\hA1>>, <<\hC8>>, <<\hDA, \h12>>, <<\h81, \h7F>>,
       <<\hD9, \hF1>>, <<\hDB, \h40>>, <<\hA4>>, <<\hA6>> >>

\* InitSeq with neither axis mirrored
InitSeq_NoMirror(h) ==
    << <<\hAE>>, <<\hD5, \h80>>, <<\hA8, h - 1>>, <<\hD3, \h00>>, <<\h40>>,
       <<\hAD, \h8B>>, <<\hA0>>, <<\hC0>>, <<\hDA, \h12>>, <<\h81, \h7F>>,
       <<\hD9, \hF1>>, <<\hDB, \h40>>, <<\hA4>>, <<\hA6>>, <<\hAF>> >>

\* _init_display: the bring-up commands, in the order the code issues them
InitSeq(h) ==
    << <<\hAE>>,            \* display OFF
       <<\hD5, \h80>>,      \* clock
       <<\hA8, h - 1>>,     \* multiplex
       <<\hD3, \h00>>,      \* display offset
       <<\h40>>,            \* start line = 0
       <<\hAD, \h8B>>,      \* DC-DC on
       <<\hA1>>,            \* segment re-map
       <<\hC8>>,            \* COM scan direction
       <<\hDA, \h12>>,      \* COM pins
       <<\h81, \h7F>>,      \* contrast
       <<\hD9, \hF1>>,      \* pre-charge
       <<\hDB, \h40>>,      \* VCOMH
       <<\hA4>>,            \* resume display from RAM
       <<\hA6>>,            \* normal display
       <<\hAF>> >>          \* display ON

----------------------------------------------------------------------------
(* Framebuffer methods, as functions of the buffer *)

\* bytearray(n): n zero bytes
ZeroBuffer(n) == [j \in 0..(n - 1) |-> 0]

\* fill that writes 1 for an "on" byte
fill_OneBit(buf, color) == [j \in DOMAIN buf |-> IF color # 0 THEN 1 ELSE 0]

\* fill(color)
fill(buf, color) ==
    LET c == IF color # 0 THEN \hFF ELSE \h00
    IN  [j \in DOMAIN buf |-> c]

\* what a drawing method leaves: the buffer, and whether it raised
Done(buf)   == [buffer |-> buf, raised |-> FALSE]
Raised(buf) == [buffer |-> buf, raised |-> TRUE]

\* pixel that assigns the byte (=) where the code updates it (|=, &=)
pixel_Assign(buf, w, h, x, y, color) ==
    IF ~(0 <= x /\ x < w /\ 0 <= y /\ y < h) THEN Done(buf)
    ELSE LET idx == (y \div 8) * w + x
         IN  IF idx \notin DOMAIN buf THEN Raised(buf)
             ELSE Done([buf EXCEPT ![idx] = IF color # 0 THEN Shl(1, BitAnd(y, 7)) ELSE 0])

\* pixel whose bounds check lets x = width and y = height through
pixel_OffByOne(buf, w, h, x, y, color) ==
    IF ~(0 <= x /\ x <= w /\ 0 <= y /\ y <= h) THEN Done(buf)
    ELSE LET bit == BitAnd(y, 7)
             idx == (y \div 8) * w + x
         IN  IF idx \notin DOMAIN buf THEN Raised(buf)
             ELSE IF color # 0
             THEN Done([buf EXCEPT ![idx] = BitOr(@, Shl(1, bit))])
             ELSE Done([buf EXCEPT ![idx] = BitAndNot(@, Shl(1, bit))])

\* pixel that checks the row only, not the column
pixel_NoColumnCheck(buf, w, h, x, y, color) ==
    IF ~(0 <= y /\ y < h) THEN Done(buf)
    ELSE LET bit == BitAnd(y, 7)
             idx == (y \div 8) * w + x
         IN  IF idx \notin DOMAIN buf THEN Raised(buf)
             ELSE IF color # 0
             THEN Done([buf EXCEPT ![idx] = BitOr(@, Shl(1, bit))])
             ELSE Done([buf EXCEPT ![idx] = BitAndNot(@, Shl(1, bit))])

\* pixel(x, y, color); indexing the bytearray at or beyond its length raises
\* IndexError
pixel(buf, w, h, x, y, color) ==
    IF ~(0 <= x /\ x < w /\ 0 <= y /\ y < h) THEN Done(buf)
    ELSE LET pg  == y \div 8
             bit == BitAnd(y, 7)
             idx == pg * w + x
         IN  IF idx \notin DOMAIN buf THEN Raised(buf)
             ELSE IF color # 0
             THEN Done([buf EXCEPT ![idx] = BitOr(@, Shl(1, bit))])
             ELSE Done([buf EXCEPT ![idx] = BitAndNot(@, Shl(1, bit))])

\* blit_column that draws only the column's 1 bits, leaving the pixels under
\* its 0 bits as they are
RECURSIVE blit_column_OnlyOn(_, _, _, _, _, _, _)
blit_column_OnlyOn(st, w, h, x, y, col_byte, bit) ==
    IF st.raised \/ bit >= 7 THEN st
    ELSE IF BitAnd(Shr(col_byte, bit), 1) = 0
    THEN blit_column_OnlyOn(st, w, h, x, y, col_byte, bit + 1)
    ELSE blit_column_OnlyOn(pixel(st.buffer, w, h, x, y + bit, 1),
                            w, h, x, y, col_byte, bit + 1)

\* blit_glyph: the inner loop over the 7 bits of one column byte, from bit on;
\* st is what the calls made so far have left
RECURSIVE blit_column(_, _, _, _, _, _, _)
blit_column(st, w, h, x, y, col_byte, bit) ==
    IF st.raised \/ bit >= 7 THEN st
    ELSE LET px_on == BitAnd(Shr(col_byte, bit), 1)
         IN  blit_column(pixel(st.buffer, w, h, x, y + bit, px_on),
                         w, h, x, y, col_byte, bit + 1)

\* blit_glyph: the outer loop over the glyph's columns, from column cx on
RECURSIVE blit_from(_, _, _, _, _, _, _)
blit_from(st, w, h, x, y, glyph_cols, cx) ==
    IF st.raised \/ cx >= Len(glyph_cols) THEN st
    ELSE blit_from(blit_column(st, w, h, x + cx, y, glyph_cols[cx + 1], 0),
                   w, h, x, y, glyph_cols, cx + 1)

\* blit_glyph(x, y, glyph_cols)
blit_glyph(buf, w, h, x, y, glyph_cols) ==
    blit_from(Done(buf), w, h, x, y, glyph_cols, 0)

\* the 5x7 font: character -> 5 column bytes, LSB at the top
FONT_5x7 ==
    [ch \in {"H", "e", "l", "o", " ", "W", "r", "d", "!", "?"} |->
        CASE ch = "H" -> <<\h7F, \h08, \h08, \h08, \h7F>>
          [] ch = "e" -> <<\h3C, \h4A, \h4A, \h4A, \h30>>
          [] ch = "l" -> <<\h00, \h41, \h7F, \h40, \h00>>
          [] ch = "o" -> <<\h38, \h44, \h44, \h44, \h38>>
          [] ch = " " -> <<\h00, \h00, \h00, \h00, \h00>>
          [] ch = "W" -> <<\h7C, \h02, \h0C, \h02, \h7C>>
          [] ch = "r" -> <<\h7C, \h08, \h04, \h04, \h08>>
          [] ch = "d" -> <<\h38, \h44, \h44, \h24, \h7C>>
          [] ch = "!" -> <<\h00, \h00, \h5F, \h00, \h00>>
          [] ch = "?" -> <<\h02, \h01, \h59, \h09, \h06>>]

\* glyph_of that falls back to the blank glyph
glyph_of_Space(font, ch) ==
    IF ch \in DOMAIN font THEN font[ch] ELSE font[" "]

\* font.get(ch), None when ch is no key, and the fallback to "?"
glyph_of(font, ch) ==
    IF ch \in DOMAIN font THEN font[ch] ELSE font["?"]

\* text_from that advances the cursor by the glyph's 5 columns only
RECURSIVE text_from_NoSpace(_, _, _, _, _, _, _)
text_from_NoSpace(st, w, h, s, x, y, font) ==
    IF st.raised \/ s = << >> THEN st
    ELSE text_from_NoSpace(blit_glyph(st.buffer, w, h, x, y, glyph_of(font, Head(s))),
                           w, h, Tail(s), x + 5, y, font)

\* text(s, x, y, font): the loop over the characters of s (the sequence of the
\* string's characters), x being the cursor
RECURSIVE text_from(_, _, _, _, _, _, _)
text_from(st, w, h, s, x, y, font) ==
    IF st.raised \/ s = << >> THEN st
    ELSE text_from(blit_glyph(st.buffer, w, h, x, y, glyph_of(font, Head(s))),
                   w, h, Tail(s), x + 6, y, font)

text(buf, w, h, s, x, y, font) == text_from(Done(buf), w, h, s, x, y, font)

----------------------------------------------------------------------------
(* The bus *)

\* i2c.writeto(addr, data) by the driver, continuing at okpc, or raising and
\* continuing at failpc.  The write raises when the bus is not locked, and may
\* raise whenever the device does not acknowledge.
writeto(data, okpc, failpc) ==
    \E ok \in BOOLEAN :
        /\ ok => lock # "free"
        /\ bus' = IF ok THEN Append(bus, data) ELSE bus
        /\ exc' = IF ok THEN exc ELSE TRUE
        /\ pc'  = IF ok THEN okpc ELSE failpc

\* another user of the same bus takes the lock for a section of its own
OtherLock ==
    /\ lock = "free" /\ ~otherIn
    /\ lock' = "other" /\ otherIn' = TRUE
    /\ UNCHANGED <<pc, stack, exc, state, t, cfg, buffer, loop, bus, hist>>

\* ... and ends its section with unlock(), which frees the lock
OtherUnlock ==
    /\ otherIn
    /\ lock' = "free" /\ otherIn' = FALSE
    /\ UNCHANGED <<pc, stack, exc, state, t, cfg, buffer, loop, bus, hist>>

----------------------------------------------------------------------------
(* Main script, lines 143-150: the time-bounded startup probe *)

\* try_lock() succeeds: the loop ends
ProbeLock ==
    /\ pc = "probe" /\ lock = "free"
    /\ lock' = "driver" /\ pc' = "probe_unlock"
    /\ UNCHANGED <<stack, exc, state, otherIn, t, cfg, buffer, loop, bus, hist>>

\* try_lock() fails and the second has not elapsed: time passes, loop again
ProbeWait ==
    /\ pc = "probe" /\ lock # "free" /\ t <= ProbeTicks
    /\ t' = t + 1
    /\ UNCHANGED <<pc, stack, exc, state, lock, otherIn, cfg, buffer, loop, bus, hist>>

\* try_lock() fails and more than a second has elapsed: break
ProbeAbandon ==
    /\ pc = "probe" /\ lock # "free" /\ t > ProbeTicks
    /\ pc' = "probe_unlock"
    /\ UNCHANGED <<stack, exc, state, lock, otherIn, t, cfg, buffer, loop, bus, hist>>

\* line 150: i2c.unlock(), on either way out of the loop
ProbeUnlock ==
    /\ pc = "probe_unlock"
    /\ lock' = "free" /\ pc' = "construct"
    /\ UNCHANGED <<stack, exc, state, otherIn, t, cfg, buffer, loop, bus, hist>>

----------------------------------------------------------------------------
(* SH1106.__init__ and _init_display *)

\* lines 15-22, called as SH1106(i2c, 128, 64, addr=0x3C, col_offset=2)
Construct ==
    /\ pc = "construct"
    /\ addr' = \h3C /\ width' = 128 /\ height' = 64 /\ pages' = 64 \div 8
    /\ col_offset' = 2
    /\ buffer' = ZeroBuffer(128 * (64 \div 8))
    /\ state' = "Initializing"
    /\ pc' = "ctor_lock"
    /\ UNCHANGED <<stack, exc, lock, otherIn, t, loop, bus, hist>>

\* lines 25-26: spin until try_lock() succeeds; an iteration that finds the
\* lock taken changes nothing, so the loop is a wait for the lock to be free
CtorLock ==
    /\ pc = "ctor_lock" /\ lock = "free"
    /\ lock' = "driver" /\ k' = 1 /\ pc' = "init_cmd"
    /\ UNCHANGED <<stack, exc, state, otherIn, t, cfg, buffer, page, i, bus, hist>>

\* lines 44-58: the k-th bring-up command; a failed write leaves through the
\* finally of __init__
InitCmd ==
    /\ pc = "init_cmd"
    /\ writeto(Cmd(InitSeq(height)[k]),
               IF k = Len(InitSeq(height)) THEN "init_fill" ELSE "init_cmd",
               "ctor_unlock")
    /\ k' = IF exc' THEN k ELSE k + 1
    /\ UNCHANGED <<stack, state, lock, otherIn, t, cfg, buffer, page, i, hist>>

\* lines 59-60: self.fill(0), then the call of self.show()
InitFill ==
    /\ pc = "init_fill"
    /\ buffer' = fill(buffer, 0)
    /\ call' = [op |-> "fill", color |-> 0] /\ pre' = buffer
    /\ stack' = <<"init">> \o stack
    /\ pc' = "show_lock"
    /\ UNCHANGED <<exc, state, lock, otherIn, t, cfg, loop, bus>>

\* CtorUnlock without the finally: the lock is kept when an exception leaves
CtorUnlock_NoFinally ==
    /\ pc = "ctor_unlock"
    /\ lock' = IF exc THEN lock ELSE "free"
    /\ state' = IF exc THEN state ELSE "Ready"
    /\ pc' = IF exc THEN "crashed" ELSE "main_fill"
    /\ UNCHANGED <<stack, exc, otherIn, t, cfg, buffer, loop, bus, hist>>

\* lines 29-30: finally: self.i2c.unlock(); then the constructor returns, or the
\* exception leaves it and ends the script
CtorUnlock ==
    /\ pc = "ctor_unlock"
    /\ lock' = "free"
    /\ state' = IF exc THEN state ELSE "Ready"
    /\ pc' = IF exc THEN "crashed" ELSE "main_fill"
    /\ UNCHANGED <<stack, exc, otherIn, t, cfg, buffer, loop, bus, hist>>

----------------------------------------------------------------------------
(* SH1106.show *)

\* lines 98-99: spin until try_lock() succeeds (a wait for the lock to be free,
\* whoever holds it); line 101: the first page
ShowLock ==
    /\ pc = "show_lock" /\ lock = "free"
    /\ lock' = "driver" /\ page' = 0
    /\ pc' = IF 0 < pages THEN "show_page" ELSE "show_unlock"
    /\ UNCHANGED <<stack, exc, state, otherIn, t, cfg, buffer, k, i, bus, hist>>

\* line 102: set page
ShowPage ==
    /\ pc = "show_page"
    /\ writeto(Cmd(<<\hB0 + page>>), "show_col_lo", "show_unlock")
    /\ UNCHANGED <<stack, state, lock, otherIn, t, cfg, buffer, loop, hist>>

\* line 105: column address, low nibble
ShowColLow ==
    /\ pc = "show_col_lo"
    /\ writeto(Cmd(<<BitOr(\h00, BitAnd(col_offset, \h0F))>>), "show_col_hi", "show_unlock")
    /\ UNCHANGED <<stack, state, lock, otherIn, t, cfg, buffer, loop, hist>>

\* where show() goes after the page: the next page, or the finally
AfterPage == IF page + 1 < pages THEN "show_page" ELSE "show_unlock"

\* line 106: column address, high nibble; lines 109-115: the page's line and the
\* first chunk index
ShowColHigh ==
    /\ pc = "show_col_hi"
    /\ writeto(Cmd(<<BitOr(\h10, BitAnd(Shr(col_offset, 4), \h0F))>>),
               IF 0 < width THEN "show_data" ELSE AfterPage,
               "show_unlock")
    /\ i' = 0
    /\ page' = IF pc' = "show_page" THEN page + 1 ELSE page
    /\ UNCHANGED <<stack, state, lock, otherIn, t, cfg, buffer, k, hist>>

\* ShowData that swallows a failed write and goes on with the next chunk
ShowData_SkipFailedChunk ==
    /\ pc = "show_data"
    /\ LET start == page * width
           end   == start + width
           line  == Slice(buffer, start, end)
           last  == i + chunk_size >= Len(line)
           data  == Data(SubSeq(line, i + 1, IF last THEN Len(line) ELSE i + chunk_size))
       IN  /\ \E ok \in BOOLEAN :
                 /\ ok => lock # "free"
                 /\ bus' = IF ok THEN Append(bus, data) ELSE bus
                 /\ exc' = (exc \/ ~ok)
           /\ pc' = IF last THEN AfterPage ELSE "show_data"
           /\ i' = IF last THEN 0 ELSE i + chunk_size
           /\ page' = IF last /\ page + 1 < pages THEN page + 1 ELSE page
    /\ UNCHANGED <<stack, state, lock, otherIn, t, cfg, buffer, k, hist>>

\* line 116: one chunk of the page's line, then the next chunk or the next page
ShowData ==
    /\ pc = "show_data"
    /\ LET start == page * width
           end   == start + width
           line  == Slice(buffer, start, end)
           last  == i + chunk_size >= Len(line)
       IN  /\ writeto(Data(SubSeq(line, i + 1, IF last THEN Len(line) ELSE i + chunk_size)),
                      IF last THEN AfterPage ELSE "show_data",
                      "show_unlock")
           /\ i' = IF exc' THEN i ELSE IF last THEN 0 ELSE i + chunk_size
           /\ page' = IF ~exc' /\ last /\ page + 1 < pages THEN page + 1 ELSE page
    /\ UNCHANGED <<stack, state, lock, otherIn, t, cfg, buffer, k, hist>>

\* ShowUnlock without the finally: the lock is kept when an exception leaves
ShowUnlock_NoFinally ==
    /\ pc = "show_unlock"
    /\ lock' = IF exc THEN lock ELSE "free"
    /\ stack' = Tail(stack)
    /\ pc' = CASE Head(stack) = "init" -> "ctor_unlock"
               [] Head(stack) = "main" -> IF exc THEN "crashed" ELSE "idle"
               [] OTHER                -> "returned"
    /\ UNCHANGED <<exc, state, otherIn, t, cfg, buffer, loop, bus, hist>>

\* lines 117-118: finally: self.i2c.unlock(); then show() returns to its caller,
\* or the exception goes on to the caller
ShowUnlock ==
    /\ pc = "show_unlock"
    /\ lock' = "free"
    /\ stack' = Tail(stack)
    /\ pc' = CASE Head(stack) = "init" -> "ctor_unlock"
               [] Head(stack) = "main" -> IF exc THEN "crashed" ELSE "idle"
               [] OTHER                -> "returned"
    /\ UNCHANGED <<exc, state, otherIn, t, cfg, buffer, loop, bus, hist>>

----------------------------------------------------------------------------
(* Main script, lines 154-167 *)

\* line 155, as the sequence of its characters
HelloWorld == <<"H", "e", "l", "l", "o", " ", "W", "o", "r", "l", "d">>

\* lines 156-159: the centred position of a text of n characters
text_px_w(n) == n * 6 - 1
text_px_h == 7

\* centred without the max(0, ...)
centred_NoClamp(extent, size) == (extent - size) \div 2

\* lines 158-159: max(0, (extent - size) // 2), Python's // being the floor
\* division that \div is
centred(extent, size) == Max(0, (extent - size) \div 2)

centre_x(w, n) == centred(w, text_px_w(n))
centre_y(h)    == centred(h, text_px_h)

\* line 161
MainFill ==
    /\ pc = "main_fill"
    /\ buffer' = fill(buffer, 0)
    /\ call' = [op |-> "fill", color |-> 0] /\ pre' = buffer
    /\ pc' = "main_text"
    /\ UNCHANGED <<stack, exc, state, lock, otherIn, t, cfg, loop, bus>>

\* line 162
MainText ==
    /\ pc = "main_text"
    /\ LET x == centre_x(width, Len(HelloWorld))
           y == centre_y(height)
           r == text(buffer, width, height, HelloWorld, x, y, FONT_5x7)
       IN  /\ buffer' = r.buffer
           /\ exc' = r.raised
           /\ pc' = IF r.raised THEN "crashed" ELSE "main_show"
           /\ call' = [op |-> "text", s |-> HelloWorld, x |-> x, y |-> y]
    /\ pre' = buffer
    /\ UNCHANGED <<stack, state, lock, otherIn, t, cfg, loop, bus>>

\* line 163: the call of disp.show()
MainShow ==
    /\ pc = "main_show"
    /\ stack' = <<"main">> \o stack
    /\ call' = [op |-> "show"] /\ pre' = buffer
    /\ pc' = "show_lock"
    /\ UNCHANGED <<exc, state, lock, otherIn, t, cfg, buffer, loop, bus>>

----------------------------------------------------------------------------
(* The program: the script from its first statement, with another bus user
   that may or may not hold the lock when the script starts *)

Init ==
    /\ pc = "probe" /\ stack = << >> /\ exc = FALSE
    /\ state = "Uninitialized"
    /\ otherIn \in BOOLEAN
    /\ lock = IF otherIn THEN "other" ELSE "free"
    /\ t = 0
    /\ addr = 0 /\ width = 0 /\ height = 0 /\ pages = 0 /\ col_offset = 0
    /\ buffer = << >>
    /\ k = 0 /\ page = 0 /\ i = 0
    /\ bus = << >>
    /\ call = [op |-> "none"] /\ pre = << >>

Other == OtherLock \/ OtherUnlock

Probe == ProbeLock \/ ProbeWait \/ ProbeAbandon \/ ProbeUnlock

Ctor == Construct \/ CtorLock \/ InitCmd \/ InitFill \/ CtorUnlock

Show == ShowLock \/ ShowPage \/ ShowColLow \/ ShowColHigh \/ ShowData \/ ShowUnlock

Main == MainFill \/ MainText \/ MainShow

Driver == Probe \/ Ctor \/ Show \/ Main

Next == Driver \/ Other

Spec == Init /\ [][Next]_vars

----------------------------------------------------------------------------
(* The driver's methods called one at a time on a constructed driver: the
   object's fields are those lines 16-22 set, for several geometries and
   several contents of the framebuffer *)

\* framebuffer contents: byte j is (p[1] * j + p[2]) mod 256; <<0, 0>> is the
\* blank framebuffer
Patterns == { <<0, 0>>, <<37, 165>>, <<101, 90>> }
Content(n, p) == [j \in 0..(n - 1) |-> (p[1] * j + p[2]) % 256]

\* a constructed driver, lines 16-22, with the given framebuffer content
Constructed(w, h, off, p) ==
    /\ addr = \h3C /\ width = w /\ height = h /\ pages = h \div 8
    /\ col_offset = off
    /\ buffer = Content(w * (h \div 8), p)
    /\ state = "Ready"
    /\ pc = "api" /\ stack = << >> /\ exc = FALSE
    /\ t = 0 /\ k = 0 /\ page = 0 /\ i = 0
    /\ bus = << >>
    /\ call = [op |-> "none"] /\ pre = << >>

\* how far outside the panel the coordinates of the drawing calls go
Margin == 6

Xs == (0 - Margin)..(width - 1 + Margin)
Ys == (0 - Margin)..(height - 1 + Margin)

\* (width, height) of the drivers the drawing methods are called on; the
\* heights are multiples of 8, as the pages of the framebuffer need
DrawGeometries == { <<8, 16>>, <<13, 8>> }

\* the glyphs blit_glyph is called with
DrawGlyphs == { FONT_5x7[ch] : ch \in {"H", "l", "!", "?"} }

\* the strings text is called with; "x" and "A" are no keys of the font
DrawStrings == { << >>, <<"H">>, <<"l", "o">>, <<"x">>, <<"?", "A">>, <<"A", "H">>,
                 <<"!", "d", "e">> }

InitDraw ==
    /\ lock = "free" /\ otherIn = FALSE
    /\ \E g \in DrawGeometries, p \in Patterns : Constructed(g[1], g[2], 2, p)

\* what the caller sees of a drawing call
Return(r, c) ==
    /\ buffer' = r.buffer
    /\ exc' = r.raised
    /\ call' = c
    /\ pre' = buffer
    /\ pc' = "returned"
    /\ UNCHANGED <<stack, state, lock, otherIn, t, cfg, loop, bus>>

ApiPixel ==
    /\ pc = "api"
    /\ \E x \in Xs, y \in Ys, color \in {0, 1} :
          Return(pixel(buffer, width, height, x, y, color),
                 [op |-> "pixel", x |-> x, y |-> y, color |-> color])

ApiBlit ==
    /\ pc = "api"
    /\ \E x \in Xs, y \in Ys, g \in DrawGlyphs :
          Return(blit_glyph(buffer, width, height, x, y, g),
                 [op |-> "blit_glyph", x |-> x, y |-> y, glyph_cols |-> g])

ApiText ==
    /\ pc = "api"
    /\ \E x \in Xs, y \in Ys, s \in DrawStrings :
          Return(text(buffer, width, height, s, x, y, FONT_5x7),
                 [op |-> "text", x |-> x, y |-> y, s |-> s])

\* fill may also follow another call
ApiFill ==
    /\ pc \in {"api", "returned"} /\ ~exc
    /\ \E color \in {0, 1} :
          Return(Done(fill(buffer, color)), [op |-> "fill", color |-> color])

NextDraw == ApiPixel \/ ApiBlit \/ ApiText \/ ApiFill

SpecDraw == InitDraw /\ [][NextDraw]_vars

\* (width, height) with heights that are no multiples of 8: the constructor
\* takes them as it takes any other (pages = height // 8, rounded down)
OddGeometries == { <<8, 12>>, <<5, 4>>, <<6, 20>> }

InitAnyHeight ==
    /\ lock = "free" /\ otherIn = FALSE
    /\ \E g \in OddGeometries, p \in Patterns : Constructed(g[1], g[2], 2, p)

SpecAnyHeight == InitAnyHeight /\ [][NextDraw]_vars

\* <<width, height, col_offset>> of the drivers show() is called on
ShowGeometries == { <<128, 64, 2>>, <<20, 16, 18>>, <<16, 8, 0>>, <<33, 16, 255>> }

InitShow ==
    /\ otherIn \in BOOLEAN
    /\ lock = IF otherIn THEN "other" ELSE "free"
    /\ \E g \in ShowGeometries, p \in Patterns : Constructed(g[1], g[2], g[3], p)

\* the call of show()
ApiShow ==
    /\ pc = "api"
    /\ stack' = <<"api">> \o stack
    /\ call' = [op |-> "show"] /\ pre' = buffer
    /\ pc' = "show_lock"
    /\ UNCHANGED <<exc, state, lock, otherIn, t, cfg, buffer, loop, bus>>

NextShow == ApiShow \/ Show \/ Other

SpecShow == InitShow /\ [][NextShow]_vars

\* the largest display width and the largest text pixel-width the centred
\* position is computed for
MaxPanel == 20
MaxTextWidth == 24

\* a driver of any width from 0 on
InitCentre ==
    /\ lock = "free" /\ otherIn = FALSE
    /\ \E W \in 0..MaxPanel : Constructed(W, 8, 2, <<0, 0>>)

\* line 158 for a text of pixel-width w
ApiCentre ==
    /\ pc = "api"
    /\ \E w \in 0..MaxTextWidth :
          call' = [op |-> "centre", w |-> w, x |-> centred(width, w)]
    /\ pre' = buffer
    /\ pc' = "returned"
    /\ UNCHANGED <<stack, exc, state, lock, otherIn, t, cfg, buffer, loop, bus>>

SpecCentre == InitCentre /\ [][ApiCentre]_vars

----------------------------------------------------------------------------
(* Properties *)

\* C1: construction terminates: as long as no bus write has failed, a driver
\* under construction is never stuck (the script, or another bus user that
\* holds the lock, can take a step), so that it goes on to Ready.
C1_ConstructionTerminates == (state = "Initializing" /\ ~exc) => ENABLED Next

\* C2: every bus write of the driver is issued while the driver holds the lock.
C2_WritesUnderLock == [][bus' # bus => lock = "driver"]_vars

Min(a, b) == IF a <= b THEN a ELSE b

\* the 15 bring-up commands as the controller must receive them; the segment
\* re-map and the COM scan direction each have two opcodes
BringUp ==
    << {<<\h00, \hAE>>},
       {<<\h00, \hD5, \h80>>},
       {<<\h00, \hA8, height - 1>>},
       {<<\h00, \hD3, \h00>>},
       {<<\h00, \h40>>},
       {<<\h00, \hAD, \h8B>>},
       {<<\h00, \hA0>>, <<\h00, \hA1>>},
       {<<\h00, \hC0>>, <<\h00, \hC8>>},
       {<<\h00, \hDA, \h12>>},
       {<<\h00, \h81, \h7F>>},
       {<<\h00, \hD9, \hF1>>},
       {<<\h00, \hDB, \h40>>},
       {<<\h00, \hA4>>},
       {<<\h00, \hA6>>},
       {<<\h00, \hAF>>} >>

\* C3: the writes of a construction start with the 15 bring-up commands in
\* order, each one write [0x00] ++ bytes: at any time the first writes on the
\* bus are the first bring-up commands (so display-off is first, display-on
\* fifteenth, and no data write comes before it).
C3_BringUpSequence ==
    state # "Uninitialized" =>
        \A j \in 1..Min(Len(bus), Len(BringUp)) : bus[j] \in BringUp[j]

\* a construction that has issued its last bring-up command
C3_Witness == pc = "init_fill" /\ Len(bus) = Len(BringUp) /\ bus[15] = <<\h00, \hAF>>

\* a bring-up command write has failed
BringUpFailed == exc /\ state = "Initializing" /\ Len(bus) < Len(BringUp)

\* C6: when a bring-up command write fails, construction aborts: the failure
\* leaves the constructor, the driver never is Ready, nothing more is written
\* on the bus, and the constructor's lock is released before the failure
\* reaches the caller.
C6_BringUpFailureAborts ==
    /\ [](BringUpFailed => /\ pc \in {"ctor_unlock", "crashed"}
                           /\ (pc = "crashed" => lock # "driver"))
    /\ [][BringUpFailed => (bus' = bus /\ state' # "Ready" /\ exc')]_vars

\* the seventh bring-up command failed and the failure has left the constructor
C6_Witness == BringUpFailed /\ pc = "crashed" /\ Len(bus) = 6 /\ lock = "free"

\* the payloads (the bytes after the control byte) of the writes
\* bus[from] .. bus[to], concatenated
RECURSIVE Payloads(_, _)
Payloads(from, to) ==
    IF from > to THEN << >> ELSE Tail(bus[from]) \o Payloads(from + 1, to)

\* data writes per page, ceil(width / 16), and all writes per page
ChunksPerPage == (width + 15) \div 16
WritesPerPage == 3 + ChunksPerPage

\* show() was called and has returned
ShowReturned == call.op = "show" /\ pc = "returned"

\* C4: a show() that succeeded has written, for page = 0 .. pages-1 in this
\* order, the commands 0xB0+page, 0x00|(col_offset&0xF), 0x10|((col_offset>>4)&0xF)
\* and then ceil(width/16) data writes of at most 16 payload bytes each that
\* together carry the page's width framebuffer bytes; 128x64 with offset 2
\* gives 8 blocks [0xB0+page, 0x02, 0x10] of 8 data writes, 128 bytes each.
C4_FlushSequence ==
    (ShowReturned /\ ~exc) =>
        /\ Len(bus) = pages * WritesPerPage
        /\ \A p \in 0..(pages - 1) :
              LET at == p * WritesPerPage
              IN  /\ bus[at + 1] = <<\h00, \hB0 + p>>
                  /\ bus[at + 2] = <<\h00, col_offset % 16>>
                  /\ bus[at + 3] = <<\h00, 16 + ((col_offset \div 16) % 16)>>
                  /\ \A c \in 1..ChunksPerPage :
                        /\ Head(bus[at + 3 + c]) = \h40
                        /\ Len(bus[at + 3 + c]) - 1 \in 1..16
                  /\ Payloads(at + 4, at + WritesPerPage)
                        = [j \in 1..width |-> buffer[p * width + j - 1]]
        /\ (width = 128 /\ height = 64 /\ col_offset = 2) =>
              /\ Len(bus) = 8 * (3 + 8)
              /\ \A p \in 0..7 :
                    /\ SubSeq(bus, 11 * p + 1, 11 * p + 3)
                          = << <<\h00, \hB0 + p>>, <<\h00, \h02>>, <<\h00, \h10>> >>
                    /\ Len(Payloads(11 * p + 4, 11 * p + 11)) = 128

\* a successful flush of the 128x64 panel with a framebuffer that is not blank
C4_Witness ==
    /\ ShowReturned /\ ~exc
    /\ width = 128 /\ height = 64 /\ col_offset = 2
    /\ Len(bus) = 88 /\ buffer[1023] # buffer[127]

\* C5: show() releases the bus lock on every way out, and a failed write
\* reaches the caller: once show() has returned the driver does not hold the
\* lock, and if the flush is incomplete the caller has the exception.
C5_ShowReleasesLock ==
    ShowReturned =>
        /\ lock # "driver"
        /\ (Len(bus) < pages * WritesPerPage => exc)

\* a show() that failed at a data write of the second page, after it returned
C5_Witness ==
    /\ ShowReturned /\ exc /\ lock = "free"
    /\ Len(bus) > WritesPerPage + 3 /\ Len(bus) < 2 * WritesPerPage

\* bit b of byte v
Bit(v, b) == (v \div 2^b) % 2

\* the framebuffer pixel of column px, row py
PixelAt(buf, px, py) == Bit(buf[(py \div 8) * width + px], py % 8)

\* the cell of column cx, row r of a glyph
GlyphBit(g, cx, r) == Bit(g[cx + 1], r)

InPanel(x, y) == x \in 0..(width - 1) /\ y \in 0..(height - 1)

\* C7: for (x, y) inside the panel, pixel(x, y, 1) leaves bit y&7 of byte
\* (y>>3)*width + x set and pixel(x, y, 0) leaves it clear; every other bit of
\* the framebuffer is as before the call.
C7_PixelWritesOneBit ==
    (call.op = "pixel" /\ InPanel(call.x, call.y)) =>
        /\ ~exc
        /\ DOMAIN buffer = DOMAIN pre
        /\ \A j \in DOMAIN pre : \A b \in 0..7 :
              Bit(buffer[j], b) =
                 IF j = (call.y \div 8) * width + call.x /\ b = call.y % 8
                 THEN (IF call.color # 0 THEN 1 ELSE 0)
                 ELSE Bit(pre[j], b)

\* a pixel of the second page switched on in a byte that had other bits set
C7_Witness ==
    /\ call.op = "pixel" /\ InPanel(call.x, call.y) /\ call.y >= 8 /\ call.color = 1
    /\ PixelAt(pre, call.x, call.y) = 0 /\ PixelAt(buffer, call.x, call.y) = 1
    /\ pre[width + call.x] # 0

\* C8: for (x, y) outside the panel, negative coordinates included, pixel is a
\* no-op whatever the colour: it raises nothing and leaves the framebuffer as
\* it was.
C8_PixelOutsideIsNoOp ==
    (call.op = "pixel" /\ ~InPanel(call.x, call.y)) => (~exc /\ buffer = pre)

\* pixel(width, y, 1) on a non-blank framebuffer, y inside the panel
C8_Witness ==
    /\ call.op = "pixel" /\ call.x = width /\ call.y \in 0..(height - 1)
    /\ call.color = 1 /\ pre[0] # 0 /\ buffer = pre

Panel == (0..(width - 1)) \X (0..(height - 1))

\* C9 as claimed: drawing a glyph only turns pixels on: after blit_glyph the
\* pixels under the glyph's 1 cells are on and every other pixel is as it was
\* before the call, the pixels under the glyph's 0 cells included.
C9_GlyphOnlyTurnsPixelsOn ==
    call.op = "blit_glyph" =>
        \A q \in Panel :
            LET cx == q[1] - call.x
                r  == q[2] - call.y
            IN  PixelAt(buffer, q[1], q[2]) =
                   IF cx \in 0..4 /\ r \in 0..6 /\ GlyphBit(call.glyph_cols, cx, r) = 1
                   THEN 1
                   ELSE PixelAt(pre, q[1], q[2])

\* C9 as the code has it: drawing a glyph overwrites the glyph's 5x7 box: a
\* pixel of the panel under a cell of the glyph becomes that cell's bit (on for
\* 1, off for 0), and every other pixel is as it was before the call.  For
\* text the boxes are those of its characters, 6 columns apart.
C9_GlyphOverwritesBox ==
    /\ call.op = "blit_glyph" =>
          /\ ~exc /\ DOMAIN buffer = DOMAIN pre
          /\ \A q \in Panel :
                LET cx == q[1] - call.x
                    r  == q[2] - call.y
                IN  PixelAt(buffer, q[1], q[2]) =
                       IF cx \in 0..4 /\ r \in 0..6
                       THEN GlyphBit(call.glyph_cols, cx, r)
                       ELSE PixelAt(pre, q[1], q[2])
    /\ call.op = "text" =>
          /\ ~exc /\ DOMAIN buffer = DOMAIN pre
          /\ \A q \in Panel :
                LET d  == q[1] - call.x
                    n  == d \div 6
                    cx == d % 6
                    r  == q[2] - call.y
                IN  PixelAt(buffer, q[1], q[2]) =
                       IF d >= 0 /\ n < Len(call.s) /\ cx \in 0..4 /\ r \in 0..6
                       THEN GlyphBit(glyph_of(FONT_5x7, call.s[n + 1]), cx, r)
                       ELSE PixelAt(pre, q[1], q[2])

\* a pixel that was on, under a 0 cell of the glyph drawn, and is off now
C9_Witness ==
    /\ call.op = "blit_glyph"
    /\ \E q \in Panel :
          /\ q[1] - call.x \in 0..4 /\ q[2] - call.y \in 0..6
          /\ GlyphBit(call.glyph_cols, q[1] - call.x, q[2] - call.y) = 0
          /\ PixelAt(pre, q[1], q[2]) = 1
          /\ PixelAt(buffer, q[1], q[2]) = 0

\* C10: fill(on) leaves every framebuffer byte 0xFF when on is true and 0x00
\* otherwise, in a buffer of width*(height/8) bytes, whatever the buffer held;
\* so fill(1) followed by fill(0) leaves width*(height/8) zero bytes.
C10_FillSetsEveryByte ==
    call.op = "fill" =>
        /\ DOMAIN buffer = 0..(width * (height \div 8) - 1)
        /\ \A j \in DOMAIN buffer : buffer[j] = IF call.color # 0 THEN \hFF ELSE \h00

\* fill(0) called on the all-0xFF buffer that fill(1) left
C10_Witness ==
    /\ call.op = "fill" /\ call.color = 0
    /\ BufLen(pre) = width * (height \div 8) /\ \A j \in DOMAIN pre : pre[j] = \hFF
    /\ BufLen(buffer) = width * (height \div 8) /\ \A j \in DOMAIN buffer : buffer[j] = 0

\* the byte whose bit b is f[b], b = 0..7
ByteOf(f) == f[0] + 2 * f[1] + 4 * f[2] + 8 * f[3] + 16 * f[4] + 32 * f[5]
                 + 64 * f[6] + 128 * f[7]

\* the framebuffer buf with the 5x7 cells of glyph g laid over it, the glyph's
\* top-left cell at column x, row y; cells outside the panel are dropped
Stamp(buf, x, y, g) ==
    [j \in DOMAIN buf |->
        ByteOf([b \in 0..7 |->
            LET cx == (j % width) - x
                r  == 8 * (j \div width) + b - y
            IN  IF cx \in 0..4 /\ r \in 0..6 THEN GlyphBit(g, cx, r)
                ELSE Bit(buf[j], b)])]

\* the font's glyph for a character, "?" standing in for a character that is no
\* key of the font
Known(ch) == IF ch \in {"H", "e", "l", "o", " ", "W", "r", "d", "!", "?"} THEN ch ELSE "?"

\* buf with the glyphs of the first n characters of s stamped on it one after
\* another, the i-th (from 0) at column x + i*(5+1), row y
RECURSIVE GlyphsInOrder(_, _, _, _, _)
GlyphsInOrder(buf, s, x, y, n) ==
    IF n = 0 THEN buf
    ELSE LET before == GlyphsInOrder(buf, s, x, y, n - 1)
         IN  Stamp(before, x + (n - 1) * (5 + 1), y, FONT_5x7[Known(s[n])])

\* C11: text(s, x, y, font) draws the characters of s left to right, the i-th
\* (from 0) with its top-left corner at (x + i*6, y): the framebuffer it leaves
\* is the one that blitting the glyphs one after another at these cursors
\* gives, and for the empty string it is the framebuffer as it was.
C11_TextIsGlyphsInOrder ==
    call.op = "text" =>
        /\ ~exc
        /\ buffer = GlyphsInOrder(pre, call.s, call.x, call.y, Len(call.s))
        /\ (call.s = << >> => buffer = pre)

\* a text of three characters of which the first and the second are both
\* (partly) on the panel and have changed pixels
C11_Witness ==
    /\ call.op = "text" /\ Len(call.s) = 3 /\ call.x = 0 /\ call.y = 1
    /\ \E q \in Panel : q[1] \in 0..4  /\ PixelAt(buffer, q[1], q[2]) # PixelAt(pre, q[1], q[2])
    /\ \E q \in Panel : q[1] \in 6..10 /\ PixelAt(buffer, q[1], q[2]) # PixelAt(pre, q[1], q[2])

\* the characters of s, each one that is no key of the font replaced by "?"
Replaced(s) == [n \in 1..Len(s) |-> Known(s[n])]

\* C12: a character that is no key of the font is drawn as the glyph of "?" at
\* its cursor, and the cursor still advances by 6: every pixel of the panel
\* under the box of the n-th character of s is the cell of the glyph the font
\* has for the n-th character of s', s with each unknown character replaced by
\* "?", and the pixels under no box are as before, which is the framebuffer
\* text(s', ...) leaves.
C12_UnknownCharDrawsDefault ==
    call.op = "text" =>
        \A q \in Panel :
            LET d  == q[1] - call.x
                n  == d \div 6
                cx == d % 6
                r  == q[2] - call.y
            IN  PixelAt(buffer, q[1], q[2]) =
                   IF d >= 0 /\ n < Len(call.s) /\ cx \in 0..4 /\ r \in 0..6
                   THEN GlyphBit(FONT_5x7[Replaced(call.s)[n + 1]], cx, r)
                   ELSE PixelAt(pre, q[1], q[2])

\* text("AH") at column 0: the "?" drawn for "A" and the "H" 6 columns on
C12_Witness ==
    /\ call.op = "text" /\ call.s = <<"A", "H">> /\ call.x = 0 /\ call.y = 0
    /\ width >= 11
    /\ \A r \in 0..6 : /\ PixelAt(buffer, 2, r) = GlyphBit(FONT_5x7["?"], 2, r)
                       /\ PixelAt(buffer, 6, r) = 1
    /\ \E r \in 0..6 : PixelAt(pre, 2, r) # PixelAt(buffer, 2, r)

\* the segment re-map and COM scan direction opcodes that mirror flags
\* (horizontal, vertical) would select
RemapFor(hmirror) == IF hmirror THEN \hA1 ELSE \hA0
ScanFor(vmirror)  == IF vmirror THEN \hC8 ELSE \hC0

C14_CentredOffset ==
    call.op = "centre" =>
        /\ call.x >= 0
        /\ call.w >= width => call.x = 0
        /\ call.w <= width =>
              /\ 2 * call.x <= width - call.w
              /\ width - call.w < 2 * call.x + 2
              /\ call.x + call.w <= width

\* a text narrower than the display by an odd number of columns
C14_Witness ==
    /\ call.op = "centre" /\ call.w > 0 /\ call.w < width
    /\ (width - call.w) % 2 = 1 /\ call.x > 0

\* the constructor is at the try_lock loop of its initial flush (show() called
\* from _init_display)
InitialFlushLocking == pc = "show_lock" /\ stack # << >> /\ Head(stack) = "init"

\* C15: the lock taken for the bring-up commands is released after display-on
\* and before the initial flush begins, so that the constructor never tries to
\* take the bus lock while it holds it: when the initial flush is about to take
\* the lock, the driver does not hold it.
C15_BringUpLockReleasedBeforeFlush == InitialFlushLocking => lock # "driver"

\* the script is at one of its three unlock() calls
AtUnlock == pc \in {"probe_unlock", "ctor_unlock", "show_unlock"}

\* C19: the program releases the bus lock only when it holds it: each unlock()
\* of the startup probe and of the driver is made with the lock held by the
\* driver, so another user's lock is never released from under it, and the
\* driver writes nothing on the bus while another user is inside its own
\* locked section.
C19_UnlockOnlyByHolder ==
    [][ /\ (AtUnlock /\ pc' # pc) => lock = "driver"
        /\ bus' # bus => ~otherIn ]_vars

\* the j-th write (from 1) of a show() that succeeds on the framebuffer pre:
\* per page the three commands, then the page's bytes in chunks of up to 16
FlushWrite(j) ==
    LET p == (j - 1) \div WritesPerPage
        r == (j - 1) % WritesPerPage
        c == r - 3
    IN  CASE r = 0 -> <<\h00, \hB0 + p>>
          [] r = 1 -> <<\h00, col_offset % 16>>
          [] r = 2 -> <<\h00, 16 + ((col_offset \div 16) % 16)>>
          [] OTHER -> <<\h40>> \o [m \in 1..Min(16, width - 16 * c) |->
                                      pre[p * width + 16 * c + m - 1]]

\* C16: when a bus write of show() fails, show() writes nothing more in that
\* call, neither the failed write again nor a later chunk or page: what the
\* controller has received is at all times a prefix of the successful
\* sequence (the first k-1 writes when the k-th fails, so a failed call has
\* fewer writes than a complete flush), nothing is added to it once a write
\* has failed, and the framebuffer is as it was when show() was called.
C16_FailedFlushStops ==
    /\ [](call.op = "show" =>
             /\ buffer = pre
             /\ Len(bus) <= pages * WritesPerPage
             /\ \A j \in 1..Len(bus) : bus[j] = FlushWrite(j)
             /\ exc => Len(bus) < pages * WritesPerPage)
    /\ [][(call.op = "show" /\ exc) => (bus' = bus /\ exc')]_vars

\* a show() of a non-blank framebuffer whose second data write of the second
\* page failed: the first page and one chunk of the second were received
C16_Witness ==
    /\ ShowReturned /\ exc /\ buffer = pre /\ pre[0] # 0
    /\ ChunksPerPage >= 2 /\ pages >= 2
    /\ Len(bus) = WritesPerPage + 4
    /\ bus[Len(bus)] = FlushWrite(Len(bus))

\* C17: text that overflows an edge of the display is clipped pixel by pixel
\* and never wraps: whatever the string, the cursor (x, y) (negative or beyond
\* the panel included) and the framebuffer before, text raises nothing, keeps
\* the buffer's length, and changes only bits whose pixel (column, row) is
\* inside the panel and inside the text's box [x, x+6*len(s)) x [y, y+7).
C17_TextIsClipped ==
    call.op = "text" =>
        /\ ~exc
        /\ DOMAIN buffer = DOMAIN pre
        /\ \A j \in DOMAIN pre : \A b \in 0..7 :
              Bit(buffer[j], b) # Bit(pre[j], b) =>
                 LET col == j % width
                     row == 8 * (j \div width) + b
                 IN  /\ InPanel(col, row)
                     /\ col >= call.x /\ col < call.x + 6 * Len(call.s)
                     /\ row >= call.y /\ row < call.y + 7

\* a text that starts left of the panel and above it and runs over its right
\* edge, and has changed the framebuffer
C17_Witness ==
    /\ call.op = "text" /\ call.x < 0 /\ call.y < 0
    /\ call.x + 6 * Len(call.s) > width
    /\ buffer # pre

\* C18: for every geometry the constructor accepts and every (x, y), pixel
\* leaves the framebuffer as it was or changes one byte at an index inside the
\* buffer, and never indexes outside it (which raises IndexError); the buffer
\* keeps its length width*(height/8) through every call.
C18_PixelStaysInsideBuffer ==
    /\ DOMAIN buffer = 0..(width * (height \div 8) - 1)
    /\ call.op = "pixel" =>
          /\ ~exc
          /\ \/ buffer = pre
             \/ \E j \in DOMAIN pre :
                   \A m \in DOMAIN pre : m # j => buffer[m] = pre[m]

====
